---- MODULE Spec2Model ----
(***************************************************************************)
(* State-machine model of the RAG-demo chat application:                   *)
(*   - Logic.submit_request / stream_response / new_conversation           *)
(*     (src/rag_demo/logic.py),                                            *)
(*   - ChatScreen.on_input_submitted / stream_response and                 *)
(*     Response.stream_response (src/rag_demo/modes/chat.py),              *)
(*   - backend selection in Logic.__init__ and the agent providers         *)
(*     (src/rag_demo/agents/*.py),                                         *)
(*   - the thread-id allocator described in spec.md section 4.1.           *)
(* Background workers are asyncio tasks: they interleave with the event    *)
(* handlers only at their await points, so every handler is one action and *)
(* every worker advances one await-to-await step per action.               *)
(***************************************************************************)
EXTENDS Integers, Sequences, FiniteSets, TLC

VARIABLES
    generating,        \* Logic.generating
    current_thread,    \* Logic.current_thread
    agent,             \* Logic.agent: "none" until async_init has run
    chats,             \* what the chat screen shows for Logic: requests and response slots
    workers,           \* the stream_response coroutines handed to run_worker by Logic
    outcome,           \* the last handler call and what it returned
    screen_generating, \* ChatScreen.generating
    messages,          \* rag.messages
    responses,         \* the Response widgets mounted by ChatScreen, oldest first
    screen_worker,     \* state of the worker running ChatScreen.stream_response
    env,               \* the machine: is the Ollama daemon reachable, is llama-cpp-python
                       \* installed, can the Hugging Face models be fetched and loaded
    config,            \* Logic's provider list and preferred_provider_type
    logic_llm,         \* the backend Logic.__init__ has built self.llm on
    acq,               \* the scoped acquisition Logic.runtime(app)
    store,             \* the allocator's persisted last-issued thread id
    lock,              \* the task holding the allocator's write transaction, 0 if none
    tasks,             \* the tasks calling claim_next_id
    returned,          \* the ids claim_next_id has returned, in order of return
    astream            \* an agent object and the astream call in progress on it

vars == <<generating, current_thread, agent, chats, workers, outcome,
          screen_generating, messages, responses, screen_worker,
          env, config, logic_llm, acq, store, lock, tasks, returned, astream>>

logic_vars == <<generating, current_thread, agent, chats, workers>>
screen_vars == <<screen_generating, messages, responses, screen_worker>>
select_vars == <<env, config, logic_llm, acq>>
alloc_vars == <<store, lock, tasks, returned>>
agent_vars == <<astream>>

----------------------------------------------------------------------------
(* Bounds                                                                  *)

\* number of submissions Logic.submit_request may accept in one run
MaxRequests == 2
\* number of submissions ChatScreen.on_input_submitted may accept in one run
MaxScreenRequests == 2
\* number of chunks one backend stream may deliver
MaxChunks == 2
\* number of chunks one backend stream may deliver to a Response widget
MaxScreenChunks == 2
\* number of New Conversation presses in one run
MaxConversations == 1

\* length of Logic's provider list
MaxProviders == 3
\* number of tasks that call claim_next_id
MaxTasks == 3
\* number of claim_next_id calls one task makes
MaxClaims == 2
\* chunks the underlying LangChain stream of one astream call delivers
MaxAgentChunks == 2

\* the request texts a user may submit; "" is the empty input line
Texts == {"", "Hello"}

----------------------------------------------------------------------------
(* Presentation-layer calls made by Logic                                  *)

\* chat_screen.new_request(request_text): show the outgoing request
new_request(shown, request_text) ==
    Append(shown, [kind |-> "request", text |-> request_text, slot |-> 0])

\* chat_screen.new_response(): mount a fresh response slot; the slot is
\* identified by the index of the worker that will write to it
new_response(shown, slot) ==
    Append(shown, [kind |-> "response", text |-> "", slot |-> slot])

\* chat_screen.clear_chats(): remove everything displayed
clear_chats(shown) == << >>

\* pprint.pformat(chunk): the text Logic.stream_response writes for a chunk
pformat(chunk) == [pformat |-> chunk]

----------------------------------------------------------------------------
(* Logic (src/rag_demo/logic.py)                                           *)

Logic_init ==
    /\ agent = "none"
    /\ current_thread = 1
    /\ generating = FALSE
    /\ chats = << >>
    /\ workers = << >>

\* Logic.async_init: create the agent
async_init ==
    /\ agent = "none"
    /\ agent' = "ready"
    /\ outcome' = [op |-> "async_init", ret |-> "None", path |-> "done"]
    /\ UNCHANGED <<generating, current_thread, chats, workers>>
    /\ UNCHANGED <<screen_vars, select_vars, alloc_vars, agent_vars>>

\* a new conversation that stays on the thread of the previous one
next_thread_reused(thread) == thread

\* line 131: the thread id of the conversation that follows
next_thread(thread) == thread + 1

\* a new conversation that also cancels the streams in flight
new_conversation_cancelling ==
    /\ current_thread < 1 + MaxConversations
    /\ current_thread' = next_thread(current_thread)
    /\ chats' = clear_chats(chats)
    /\ workers' = [w \in DOMAIN workers |->
                      IF workers[w].pc \in {"scheduled", "streaming"}
                      THEN [workers[w] EXCEPT !.pc = "cancelled"]
                      ELSE workers[w]]
    /\ outcome' = [op |-> "new_conversation", ret |-> "None", path |-> "done"]
    /\ UNCHANGED <<generating, agent>>
    /\ UNCHANGED <<screen_vars, select_vars, alloc_vars, agent_vars>>

\* Logic.new_conversation
new_conversation ==
    /\ current_thread < 1 + MaxConversations
    /\ current_thread' = next_thread(current_thread)
    /\ chats' = clear_chats(chats)
    /\ outcome' = [op |-> "new_conversation", ret |-> "None", path |-> "done"]
    /\ UNCHANGED <<generating, agent, workers>>
    /\ UNCHANGED <<screen_vars, select_vars, alloc_vars, agent_vars>>

\* a submit_request that returns without line 141
generating_after_accept_kept == TRUE

\* the value of Logic.generating when submit_request returns after accepting:
\* line 137 sets it, line 141 clears it again before the return
generating_after_accept == FALSE

\* the guard of Logic.submit_request: a request is refused while generating
submit_request_refuses == generating

\* a request that is streamed against a thread of its own
thread_of_request_fresh == current_thread + 1

\* line 140: the thread id handed to stream_response
thread_of_request == current_thread

\* a call that runs the stream to its end before it returns
run_worker_awaited(ws, thread, request_text) ==
    Append(ws, [thread |-> thread, text |-> request_text, pc |-> "done",
                pos |-> MaxChunks, written |-> [k \in 1..MaxChunks |-> pformat(k)],
                shown |-> "none"])

\* chat_screen.run_worker(self.stream_response(...)), line 140: the coroutine
\* is handed to the event loop and has not run when the call returns
run_worker(ws, thread, request_text) ==
    Append(ws, [thread |-> thread, text |-> request_text, pc |-> "scheduled",
                pos |-> 0, written |-> << >>, shown |-> "none"])

\* Logic.submit_request(chat_screen, request_text); the body has no await, so
\* the call is one step of the event loop
submit_request(request_text) ==
    IF submit_request_refuses
    THEN /\ outcome' = [op |-> "submit_request", ret |-> "False", path |-> "busy"]
         /\ UNCHANGED logic_vars
         /\ UNCHANGED <<screen_vars, select_vars, alloc_vars, agent_vars>>
    ELSE /\ Len(workers) < MaxRequests
         /\ generating' = generating_after_accept
         /\ chats' = new_response(new_request(chats, request_text), Len(workers) + 1)
         /\ workers' = run_worker(workers, thread_of_request, request_text)
         /\ outcome' = [op |-> "submit_request", ret |-> "True", path |-> "accepted"]
         /\ UNCHANGED <<current_thread, agent>>
         /\ UNCHANGED <<screen_vars, select_vars, alloc_vars, agent_vars>>

\* the errors Logic.stream_response catches and shows in the response widget
CaughtErrors == {"StoppedStreamError", "LangChainException"}

\* Logic.stream_response, lines 151-159: the worker starts running
Logic_stream_response_start(w) ==
    /\ workers[w].pc = "scheduled"
    /\ workers' = [workers EXCEPT ![w].pc =
                      IF agent = "none" THEN "raised" ELSE "streaming"]
    /\ UNCHANGED <<generating, current_thread, agent, chats, outcome>>
    /\ UNCHANGED <<screen_vars, select_vars, alloc_vars, agent_vars>>

\* Logic.stream_response, lines 162-171: one chunk arrives and is written
Logic_stream_response_chunk(w) ==
    /\ workers[w].pc = "streaming"
    /\ workers[w].pos < MaxChunks
    /\ workers' = [workers EXCEPT
                      ![w].pos = @ + 1,
                      ![w].written = Append(@, pformat(workers[w].pos + 1))]
    /\ UNCHANGED <<generating, current_thread, agent, chats, outcome>>
    /\ UNCHANGED <<screen_vars, select_vars, alloc_vars, agent_vars>>

\* an except clause that raises the error again
set_shown_object_reraises(worker, e) == [worker EXCEPT !.pc = "raised"]

\* lines 172-177: response_widget.set_shown_object(e), after which the
\* coroutine returns normally
set_shown_object(worker, e) == [worker EXCEPT !.shown = e, !.pc = "done"]

\* Logic.stream_response, lines 172-177: the stream raises an error that is caught
Logic_stream_response_error(w, e) ==
    /\ workers[w].pc = "streaming"
    /\ workers' = [workers EXCEPT ![w] = set_shown_object(@, e)]
    /\ UNCHANGED <<generating, current_thread, agent, chats, outcome>>
    /\ UNCHANGED <<screen_vars, select_vars, alloc_vars, agent_vars>>

\* Logic.stream_response: the agent's stream is exhausted
Logic_stream_response_end(w) ==
    /\ workers[w].pc = "streaming"
    /\ workers' = [workers EXCEPT ![w].pc = "done"]
    /\ UNCHANGED <<generating, current_thread, agent, chats, outcome>>
    /\ UNCHANGED <<screen_vars, select_vars, alloc_vars, agent_vars>>

\* the worker task is cancelled while it is scheduled or suspended at an await
Logic_worker_cancelled(w) ==
    /\ workers[w].pc \in {"scheduled", "streaming"}
    /\ workers' = [workers EXCEPT ![w].pc = "cancelled"]
    /\ UNCHANGED <<generating, current_thread, agent, chats, outcome>>
    /\ UNCHANGED <<screen_vars, select_vars, alloc_vars, agent_vars>>

\* the workers of Logic that are scheduled or running
ActiveWorkers == {w \in DOMAIN workers : workers[w].pc \in {"scheduled", "streaming"}}

----------------------------------------------------------------------------
(* ChatScreen and Response (src/rag_demo/modes/chat.py)                    *)

\* rag.starter_messages
starter_messages ==
    << [role |-> "system", text |-> "You are a helpful assistant.", tokens |-> << >>] >>

\* a Response widget as ChatScreen.on_input_submitted mounts it.  left_by and
\* stop_at are history: how stream_response left its loop, and how many
\* chunks the loop had received when the stop button was pressed (-1 when it
\* was not pressed before the loop was left)
NewResponse ==
    [content |-> [kind |-> "waiting", tokens |-> << >>], stop_requested |-> FALSE,
     stop_button |-> TRUE, left_by |-> "none", stop_at |-> -1]

\* the worker of ChatScreen when no stream_response coroutine exists
NoWorker ==
    [pc |-> "none", pos |-> 0, response |-> << >>, first |-> TRUE, logged |-> 0]

ChatScreen_init ==
    /\ screen_generating = FALSE
    /\ messages = starter_messages
    /\ responses = << >>
    /\ screen_worker = NoWorker

\* a handler that has lost its first check
on_input_submitted_never_refuses == FALSE

\* the guard of ChatScreen.on_input_submitted, line 269
on_input_submitted_refuses == screen_generating

\* a handler that has lost its second check
is_empty_never(value) == FALSE

\* "not new_request", line 272: the submitted text is the empty string
is_empty(value) == value = ""

\* ChatScreen.on_input_submitted for the new_request input
on_input_submitted(value) ==
    IF on_input_submitted_refuses
    THEN /\ outcome' = [op |-> "on_input_submitted", ret |-> "None", path |-> "busy"]
         /\ UNCHANGED screen_vars
         /\ UNCHANGED <<logic_vars, select_vars, alloc_vars, agent_vars>>
    ELSE IF is_empty(value)
    THEN /\ outcome' = [op |-> "on_input_submitted", ret |-> "None", path |-> "empty"]
         /\ UNCHANGED screen_vars
         /\ UNCHANGED <<logic_vars, select_vars, alloc_vars, agent_vars>>
    ELSE /\ Len(responses) < MaxScreenRequests
         /\ screen_generating' = TRUE
         /\ messages' = Append(messages, [role |-> "human", text |-> value, tokens |-> << >>])
         /\ responses' = Append(responses, NewResponse)
         /\ screen_worker' = [NoWorker EXCEPT !.pc = "scheduled"]
         /\ outcome' = [op |-> "on_input_submitted", ret |-> "None", path |-> "accepted"]
         /\ UNCHANGED <<logic_vars, select_vars, alloc_vars, agent_vars>>

\* Response.on_button_pressed for the stop button of the newest response; the
\* button is hidden once the stream has ended
on_button_pressed_stop ==
    /\ responses # << >>
    /\ responses[Len(responses)].stop_button
    /\ ~responses[Len(responses)].stop_requested
    /\ responses' = [responses EXCEPT
                        ![Len(responses)].stop_requested = TRUE,
                        ![Len(responses)].stop_at =
                            IF screen_worker.pc \in {"scheduled", "streaming"}
                            THEN screen_worker.pos ELSE @]
    /\ outcome' = [op |-> "on_button_pressed", ret |-> "None", path |-> "stop"]
    /\ UNCHANGED <<screen_generating, messages, screen_worker>>
    /\ UNCHANGED <<logic_vars, select_vars, alloc_vars, agent_vars>>

\* ChatScreen.stream_response starts and enters Response.stream_response,
\* lines 189-198
Response_stream_response_start ==
    /\ screen_worker.pc = "scheduled"
    /\ screen_worker' = [screen_worker EXCEPT !.pc = "streaming"]
    /\ UNCHANGED <<screen_generating, messages, responses, outcome>>
    /\ UNCHANGED <<logic_vars, select_vars, alloc_vars, agent_vars>>

\* the value of ChatScreen.generating once Response.stream_response has
\* returned to ChatScreen.stream_response, line 290
generating_after_stream == FALSE

\* lines 232-235 and 290: the reply is recorded and the turn is over; rs is
\* the list of Response widgets as the loop left it
Response_finish_ok(rs) ==
    /\ messages' = Append(messages,
                    [role |-> "ai", text |-> "", tokens |-> screen_worker.response])
    /\ responses' = [rs EXCEPT ![Len(rs)].stop_button = FALSE]
    /\ screen_generating' = generating_after_stream
    /\ screen_worker' = [screen_worker EXCEPT !.pc = "done"]

\* an except clause that records what was streamed before the error
Response_finish_error_recording(rs) ==
    /\ messages' = Append(messages,
                    [role |-> "ai", text |-> "", tokens |-> screen_worker.response])
    /\ responses' = [rs EXCEPT
                        ![Len(rs)].content = [kind |-> "error", tokens |-> << >>],
                        ![Len(rs)].stop_button = FALSE]
    /\ screen_generating' = generating_after_stream
    /\ screen_worker' = [screen_worker EXCEPT !.pc = "done"]

\* lines 225-228, 235 and 290: the error is shown and the turn is over
Response_finish_error(rs) ==
    /\ messages' = messages
    /\ responses' = [rs EXCEPT
                        ![Len(rs)].content = [kind |-> "error", tokens |-> << >>],
                        ![Len(rs)].stop_button = FALSE]
    /\ screen_generating' = generating_after_stream
    /\ screen_worker' = [screen_worker EXCEPT !.pc = "done"]

\* a diagnostic that is never written
log_error_silent(logged) == logged

\* self.app.log.error(...) of line 201: one more entry in the application log
log_error(logged) == logged + 1

\* a break that is handled as if the stream had raised
after_break_as_error == "closing_err"

\* where the break of line 221 leads: no exception is in flight, so the else
\* clause runs, and the markdown stream is open because a string chunk has
\* just been shown: the coroutine suspends in stream.stop() of line 231
after_break == "closing_ok"

\* a stop check that also runs for the chunks that are not strings
stop_check_skipped_always(is_str) == FALSE

\* the "continue" of line 202: a chunk that is not a string never reaches
\* the stop check of line 219
stop_check_skipped(is_str) == ~is_str

\* lines 199-221: the backend delivers one chunk; is_str tells whether its
\* content is a string
Response_stream_response_chunk(is_str) ==
    /\ screen_worker.pc = "streaming"
    /\ screen_worker.pos < MaxScreenChunks
    /\ LET n == Len(responses)
           token == screen_worker.pos + 1
           text == IF screen_worker.first THEN <<token>>
                   ELSE Append(screen_worker.response, token)
           stop == responses[n].stop_requested /\ ~stop_check_skipped(is_str)
       IN /\ screen_worker' =
               IF is_str
               THEN [screen_worker EXCEPT
                        !.pos = token, !.response = text, !.first = FALSE,
                        !.pc = IF stop THEN after_break ELSE "streaming"]
               ELSE [screen_worker EXCEPT
                        !.pos = token, !.logged = log_error(@),
                        !.pc = IF stop THEN after_break ELSE "streaming"]
          /\ responses' =
               [responses EXCEPT
                   ![n].content = IF is_str THEN [kind |-> "text", tokens |-> text]
                                  ELSE @,
                   ![n].stop_requested = IF stop THEN FALSE ELSE @,
                   ![n].left_by = IF stop THEN "break" ELSE @]
    /\ UNCHANGED <<screen_generating, messages, outcome>>
    /\ UNCHANGED <<logic_vars, select_vars, alloc_vars, agent_vars>>

\* the backend's stream is exhausted: the loop ends; with an open markdown
\* stream the coroutine suspends in stream.stop() (line 231) first
Response_stream_response_exhausted ==
    /\ screen_worker.pc = "streaming"
    /\ LET rs == [responses EXCEPT ![Len(responses)].left_by = "exhausted"]
       IN IF screen_worker.first
          THEN Response_finish_ok(rs)
          ELSE /\ screen_worker' = [screen_worker EXCEPT !.pc = "closing_ok"]
               /\ responses' = rs
               /\ UNCHANGED <<screen_generating, messages>>
    /\ UNCHANGED outcome
    /\ UNCHANGED <<logic_vars, select_vars, alloc_vars, agent_vars>>

\* the backend raises while streaming: the except clause runs; with an open
\* markdown stream the coroutine suspends in stream.stop() (line 224) first
Response_stream_response_raises ==
    /\ screen_worker.pc = "streaming"
    /\ LET rs == [responses EXCEPT ![Len(responses)].left_by = "raised"]
       IN IF screen_worker.first
          THEN Response_finish_error(rs)
          ELSE /\ screen_worker' = [screen_worker EXCEPT !.pc = "closing_err"]
               /\ responses' = rs
               /\ UNCHANGED <<screen_generating, messages>>
    /\ UNCHANGED outcome
    /\ UNCHANGED <<logic_vars, select_vars, alloc_vars, agent_vars>>

\* stream.stop() returns and the coroutine runs to its end
Response_stream_response_closed ==
    /\ screen_worker.pc \in {"closing_ok", "closing_err"}
    /\ IF screen_worker.pc = "closing_ok"
       THEN Response_finish_ok(responses)
       ELSE Response_finish_error(responses)
    /\ UNCHANGED outcome
    /\ UNCHANGED <<logic_vars, select_vars, alloc_vars, agent_vars>>

\* the worker task is cancelled: CancelledError is not an Exception, so only
\* the finally clause of Response.stream_response runs (line 235) and
\* line 290 of ChatScreen.stream_response is skipped
ChatScreen_worker_cancelled ==
    /\ screen_worker.pc \in {"scheduled", "streaming", "closing_ok", "closing_err"}
    /\ screen_worker' = [screen_worker EXCEPT !.pc = "cancelled"]
    /\ responses' = IF screen_worker.pc = "scheduled" THEN responses
                    ELSE [responses EXCEPT ![Len(responses)].stop_button = FALSE,
                                           ![Len(responses)].left_by = "cancelled"]
    /\ UNCHANGED <<screen_generating, messages, outcome>>
    /\ UNCHANGED <<logic_vars, select_vars, alloc_vars, agent_vars>>

\* TRUE while the worker of ChatScreen is scheduled or running
ScreenWorkerActive ==
    screen_worker.pc \in {"scheduled", "streaming", "closing_ok", "closing_err"}

----------------------------------------------------------------------------
(* Probes (src/rag_demo/probe.py) and agent providers (src/rag_demo/agents) *)

\* a probe that lets the ConnectionError of ollama.list() through
probe_ollama_raising(e) == IF e.ollama_up THEN "models" ELSE "raises"

\* probe.probe_ollama(): the installed models, or None when connecting fails
probe_ollama(e) == IF e.ollama_up THEN "models" ELSE "None"

\* probe.probe_llama_available()
probe_llama_available(e) == e.llama_available

\* a caller runs probe_ollama() and gets its result
probe_ollama_call ==
    /\ LET r == probe_ollama(env)
       IN outcome' = [op |-> "probe_ollama", ret |-> r,
                      path |-> IF r = "raises" THEN "raised" ELSE "returned"]
    /\ UNCHANGED <<logic_vars, screen_vars, select_vars, alloc_vars, agent_vars>>

\* a caller runs probe_llama_available() and gets its result
probe_llama_available_call ==
    /\ outcome' = [op |-> "probe_llama_available",
                   ret |-> IF probe_llama_available(env) THEN "True" ELSE "False",
                   path |-> "returned"]
    /\ UNCHANGED <<logic_vars, screen_vars, select_vars, alloc_vars, agent_vars>>

\* what entering a provider's get_agent context does: the agent it yields
\* ("None" when it declines, "raises" when it raises instead of yielding),
\* whether a checkpoint connection is opened for the agent, and whether that
\* connection is held by an "async with" that closes it when the context is
\* left
NoAgent == [agent |-> "None", conn |-> FALSE, scoped |-> FALSE]

\* LlamaCppAgentProvider.get_agent
LlamaCppAgentProvider_get_agent(e) ==
    IF probe_llama_available(e)
    THEN [agent |-> "LlamaCppAgent", conn |-> TRUE, scoped |-> TRUE]
    ELSE NoAgent

\* OllamaAgentProvider.get_agent
OllamaAgentProvider_get_agent(e) ==
    IF probe_ollama(e) # "None"
    THEN [agent |-> "OllamaAgent", conn |-> TRUE, scoped |-> TRUE]
    ELSE NoAgent

\* _hf_downloads() and the pipeline construction of HuggingFaceAgent.__init__
\* go through: the models can be fetched from the hub or its cache and loaded
hf_downloads(e) == e.hf_loadable

\* HuggingFaceAgentProvider.get_agent: no probe and no "yield None"; the
\* downloads and the agent's constructor run unguarded, and the constructor
\* opens a sqlite3.Connection (line 55) that nothing closes
HuggingFaceAgentProvider_get_agent(e) ==
    IF hf_downloads(e)
    THEN [agent |-> "HuggingFaceAgent", conn |-> TRUE, scoped |-> FALSE]
    ELSE [agent |-> "raises", conn |-> FALSE, scoped |-> FALSE]

\* DummyAgentProvider.get_agent: always an agent
DummyAgentProvider_get_agent(e) ==
    [agent |-> "DummyAgent", conn |-> FALSE, scoped |-> FALSE]

\* the provider tags: LocalProviderType, and the DUMMY tag dummy.py uses
ProviderTypes == {"hugging_face", "llama_cpp", "ollama", "dummy"}

\* provider.get_agent(checkpoints_sqlite_db) of the provider with this tag
get_agent(type, e) ==
    CASE type = "llama_cpp" -> LlamaCppAgentProvider_get_agent(e)
      [] type = "ollama" -> OllamaAgentProvider_get_agent(e)
      [] type = "hugging_face" -> HuggingFaceAgentProvider_get_agent(e)
      [] type = "dummy" -> DummyAgentProvider_get_agent(e)

----------------------------------------------------------------------------
(* The agents' astream (src/rag_demo/agents)                               *)

\* what the LangChain stream of an agent delivers: an AIMessageChunk whose
\* content is a string, an AIMessageChunk whose content is a list of content
\* blocks, or a message of another class
Chunks ==
    {[kind |-> "str", content |-> "a"], [kind |-> "str", content |-> "b"],
     [kind |-> "list", content |-> ""], [kind |-> "not_ai", content |-> ""]}

\* the thread ids an astream call is made with
ThreadIds == {"1", "2"}

\* the default response of DummyAgent.__init__, line 19
DummyResponse == <<"Hello", ",", " World", "!">>

\* the inputs and the output of the call before the current one
NoCall == [valid |-> FALSE, user_message |-> "", thread_id |-> "", yielded |-> << >>]

\* no agent constructed yet
NoStream ==
    [agent |-> "none", pc |-> "idle", user_message |-> "", thread_id |-> "",
     stream |-> << >>, pos |-> 0, yielded |-> << >>, logged |-> 0, prev |-> NoCall]

AgentInit == astream = NoStream

\* a provider's get_agent constructs the agent
Agent_init(a) ==
    /\ astream.agent = "none"
    /\ astream' = [astream EXCEPT !.agent = a]
    /\ UNCHANGED outcome
    /\ UNCHANGED <<logic_vars, screen_vars, select_vars, alloc_vars>>

\* agent.astream(user_message, thread_id, app) is called and iterated; stream
\* collects what the LangChain agent behind it delivers (DummyAgent has none)
Agent_astream(user_message, thread_id) ==
    /\ astream.agent # "none"
    /\ astream.pc \in {"idle", "done"}
    /\ astream' =
          [astream EXCEPT
              !.pc = "streaming",
              !.user_message = user_message, !.thread_id = thread_id,
              !.stream = << >>,
              !.pos = 0, !.yielded = << >>, !.logged = 0,
              !.prev = IF astream.pc = "done"
                       THEN [valid |-> TRUE, user_message |-> astream.user_message,
                             thread_id |-> astream.thread_id,
                             yielded |-> astream.yielded]
                       ELSE @]
    /\ UNCHANGED outcome
    /\ UNCHANGED <<logic_vars, screen_vars, select_vars, alloc_vars>>

\* LlamaCppAgent.astream, lines 68-76: one pass of the loop, for the chunk the
\* LangChain stream delivers next
LlamaCppAgent_astream_chunk(message_chunk) ==
    /\ astream.agent = "LlamaCppAgent"
    /\ astream.pc = "streaming"
    /\ astream.pos < MaxAgentChunks
    /\ LET received == [astream EXCEPT !.pos = @ + 1,
                                       !.stream = Append(@, message_chunk)]
       IN astream' =
            IF message_chunk.kind # "not_ai"
            THEN IF message_chunk.kind = "str"
                 THEN [received EXCEPT !.yielded = Append(@, message_chunk.content)]
                 ELSE [received EXCEPT !.logged = @ + 1]
            ELSE [received EXCEPT !.logged = @ + 1]
    /\ UNCHANGED outcome
    /\ UNCHANGED <<logic_vars, screen_vars, select_vars, alloc_vars>>

\* OllamaAgent.astream, lines 64-72: one pass of the loop, for the chunk the
\* LangChain stream delivers next
OllamaAgent_astream_chunk(message_chunk) ==
    /\ astream.agent = "OllamaAgent"
    /\ astream.pc = "streaming"
    /\ astream.pos < MaxAgentChunks
    /\ LET received == [astream EXCEPT !.pos = @ + 1,
                                       !.stream = Append(@, message_chunk)]
       IN astream' =
            IF message_chunk.kind # "not_ai"
            THEN IF message_chunk.kind = "str"
                 THEN [received EXCEPT !.yielded = Append(@, message_chunk.content)]
                 ELSE [received EXCEPT !.logged = @ + 1]
            ELSE [received EXCEPT !.logged = @ + 1]
    /\ UNCHANGED outcome
    /\ UNCHANGED <<logic_vars, screen_vars, select_vars, alloc_vars>>

\* the LangChain stream is exhausted and the generator returns
LangChainAgent_astream_end ==
    /\ astream.agent \in {"LlamaCppAgent", "OllamaAgent"}
    /\ astream.pc = "streaming"
    /\ astream' = [astream EXCEPT !.pc = "done"]
    /\ UNCHANGED outcome
    /\ UNCHANGED <<logic_vars, screen_vars, select_vars, alloc_vars>>

\* a dummy agent whose first token repeats the user's message
DummyAgent_token_echo(response, i, user_message, thread_id) ==
    IF i = 1 THEN user_message ELSE response[i]

\* DummyAgent.astream, lines 41-43: the arguments are deleted and the i-th
\* token yielded is the i-th element of self.response
DummyAgent_token(response, i, user_message, thread_id) == response[i]

\* DummyAgent.astream: one pass of the loop of lines 42-44
DummyAgent_astream_token ==
    /\ astream.agent = "DummyAgent"
    /\ astream.pc = "streaming"
    /\ astream.pos < Len(DummyResponse)
    /\ astream' =
          [astream EXCEPT
              !.pos = @ + 1,
              !.yielded = Append(@, DummyAgent_token(DummyResponse, astream.pos + 1,
                                         astream.user_message, astream.thread_id))]
    /\ UNCHANGED outcome
    /\ UNCHANGED <<logic_vars, screen_vars, select_vars, alloc_vars>>

\* DummyAgent.astream: the loop is over and the generator returns
DummyAgent_astream_end ==
    /\ astream.agent = "DummyAgent"
    /\ astream.pc = "streaming"
    /\ astream.pos = Len(DummyResponse)
    /\ astream' = [astream EXCEPT !.pc = "done"]
    /\ UNCHANGED outcome
    /\ UNCHANGED <<logic_vars, screen_vars, select_vars, alloc_vars>>

----------------------------------------------------------------------------
(* Backend selection in Logic.__init__ (src/rag_demo/logic.py, 65-87)      *)

\* the test of line 65 inverted
Logic_prefers_ollama_inverted(e) == probe_ollama(e) = "None"

\* the test of line 65: Ollama is used when its probe answers
Logic_prefers_ollama(e) == probe_ollama(e) # "None"

\* lines 65-87: probe Ollama; build on it when it answers, else build on
\* llama.cpp, which is not probed
Logic_init_llm ==
    /\ logic_llm.llm = "unset"
    /\ logic_llm' =
          IF Logic_prefers_ollama(env)
          THEN [llm |-> "ollama", tried |-> <<"ollama">>, probed |-> {"ollama"}]
          ELSE [llm |-> "llama_cpp", tried |-> <<"ollama", "llama_cpp">>,
                probed |-> {"ollama"}]
    /\ UNCHANGED <<env, config, acq, outcome>>
    /\ UNCHANGED <<logic_vars, screen_vars, alloc_vars, agent_vars>>

----------------------------------------------------------------------------
(* Logic.runtime(app): scoped acquisition of a Runtime (spec.md 4.5)       *)

\* a check that accepts every preferred tag
preferred_is_always_known(providers, preferred) == TRUE

\* the preferred tag names a provider of the list
preferred_is_known(providers, preferred) ==
    \E i \in DOMAIN providers : providers[i] = preferred

RECURSIVE move_preferred(_, _, _, _, _)
\* one pass over the providers, collecting the preferred ones and the others
move_preferred(providers, preferred, i, front, back) ==
    IF i > Len(providers)
    THEN front \o back
    ELSE IF providers[i] = preferred
         THEN move_preferred(providers, preferred, i + 1, Append(front, i), back)
         ELSE move_preferred(providers, preferred, i + 1, front, Append(back, i))

\* a reordering that moves only the first preferred provider to the front
trial_order_first_match_only(providers, preferred) ==
    IF \E i \in DOMAIN providers : providers[i] = preferred
    THEN LET m == CHOOSE i \in DOMAIN providers :
                     /\ providers[i] = preferred
                     /\ \A j \in 1..(i - 1) : providers[j] # preferred
         IN <<m>> \o SelectSeq([i \in DOMAIN providers |-> i], LAMBDA i : i # m)
    ELSE [i \in DOMAIN providers |-> i]

\* step 2: the trial order, as positions of the provider list
trial_order(providers, preferred) ==
    move_preferred(providers, preferred, 1, << >>, << >>)

\* Logic.runtime before it is entered; open holds the providers whose
\* checkpoint connection is open, scoped those whose connection is closed by
\* leaving their get_agent context, opened and closed count the connections
\* opened and closed so far, runtimes counts the Runtime objects constructed
NoAcquisition ==
    [phase |-> "idle", order |-> << >>, pos |-> 0, invoked |-> << >>,
     selected |-> 0, agent |-> "None", open |-> {}, scoped |-> {},
     opened |-> 0, closed |-> 0, runtimes |-> 0]

\* steps 1-2: enter the scope, fix the trial order or fail on an unknown
\* preferred provider
runtime_enter ==
    /\ acq.phase = "idle"
    /\ acq' = IF config.preferred # "None"
                 /\ ~preferred_is_known(config.providers, config.preferred)
              THEN [acq EXCEPT !.phase = "config_error"]
              ELSE [acq EXCEPT
                       !.phase = "trying",
                       !.order = trial_order(config.providers, config.preferred),
                       !.pos = 1]
    /\ UNCHANGED <<env, config, logic_llm, outcome>>
    /\ UNCHANGED <<logic_vars, screen_vars, alloc_vars, agent_vars>>

\* a search that goes on after a provider has yielded an agent: every
\* provider is asked and each agent obtained gets a Runtime of its own
runtime_try_provider_keeps_trying ==
    /\ acq.phase = "trying"
    /\ LET i == acq.order[acq.pos]
           got == get_agent(config.providers[i], env)
           last == acq.pos = Len(acq.order)
       IN acq' = IF got.agent \in {"None", "raises"}
                 THEN [acq EXCEPT
                          !.phase = IF ~last THEN "trying"
                                    ELSE IF acq.selected # 0 THEN "yielded"
                                    ELSE "exhausted",
                          !.invoked = Append(@, i),
                          !.pos = @ + 1]
                 ELSE [acq EXCEPT
                          !.phase = IF last THEN "yielded" ELSE "trying",
                          !.selected = i, !.agent = got.agent,
                          !.invoked = Append(@, i),
                          !.pos = IF last THEN @ ELSE @ + 1,
                          !.runtimes = @ + 1]
    /\ UNCHANGED <<env, config, logic_llm, outcome>>
    /\ UNCHANGED <<logic_vars, screen_vars, alloc_vars, agent_vars>>

\* steps 3-4: enter the next provider's get_agent; an agent ends the search
\* with a Runtime, null moves on, and null from the last provider is the
\* "no provider available" error; an error raised by get_agent leaves
\* Logic.runtime as it is
runtime_try_provider ==
    /\ acq.phase = "trying"
    /\ LET i == acq.order[acq.pos]
           got == get_agent(config.providers[i], env)
       IN acq' = IF got.agent = "raises"
                 THEN [acq EXCEPT
                          !.phase = "provider_raised",
                          !.invoked = Append(@, i)]
                 ELSE IF got.agent # "None"
                 THEN [acq EXCEPT
                          !.phase = "yielded", !.selected = i, !.agent = got.agent,
                          !.invoked = Append(@, i),
                          !.open = IF got.conn THEN {i} ELSE {},
                          !.scoped = IF got.scoped THEN {i} ELSE {},
                          !.opened = IF got.conn THEN @ + 1 ELSE @,
                          !.runtimes = @ + 1]
                 ELSE [acq EXCEPT
                          !.phase = IF acq.pos = Len(acq.order)
                                    THEN "exhausted" ELSE "trying",
                          !.invoked = Append(@, i),
                          !.pos = @ + 1]
    /\ UNCHANGED <<env, config, logic_llm, outcome>>
    /\ UNCHANGED <<logic_vars, screen_vars, alloc_vars, agent_vars>>

\* step 5: the caller leaves the scope, normally or by raising, and with it
\* the winning provider's get_agent context, which closes the connection it
\* holds
runtime_exit(raised) ==
    /\ acq.phase = "yielded"
    /\ acq' = [acq EXCEPT
                  !.phase = IF raised THEN "exited_raising" ELSE "exited",
                  !.closed = @ + Cardinality(acq.open \cap acq.scoped),
                  !.open = @ \ acq.scoped]
    /\ UNCHANGED <<env, config, logic_llm, outcome>>
    /\ UNCHANGED <<logic_vars, screen_vars, alloc_vars, agent_vars>>

----------------------------------------------------------------------------
(* AtomicIDManager (spec.md 4.1)                                           *)

\* the last-issued value of a store that has issued nothing
InitialId == 0

IdleTask == [pc |-> "idle", last |-> 0, calls |-> 0]

\* a task calls claim_next_id; the call first waits for the store
claim_call(t) ==
    /\ tasks[t].pc = "idle"
    /\ tasks[t].calls < MaxClaims
    /\ tasks' = [tasks EXCEPT ![t].pc = "waiting", ![t].calls = @ + 1]
    /\ UNCHANGED <<store, lock, returned, outcome>>
    /\ UNCHANGED <<logic_vars, screen_vars, select_vars, agent_vars>>

\* calls that do not wait for each other
may_begin_unserialized(t) == TRUE

\* a call may open its write transaction when no other call holds one
may_begin(t) == lock = 0

\* claim_next_id: the call opens a write transaction on the store
claim_begin(t) ==
    /\ tasks[t].pc = "waiting"
    /\ may_begin(t)
    /\ lock' = t
    /\ tasks' = [tasks EXCEPT ![t].pc = "read"]
    /\ UNCHANGED <<store, returned, outcome>>
    /\ UNCHANGED <<logic_vars, screen_vars, select_vars, agent_vars>>

\* claim_next_id: read the last-issued id
claim_read(t) ==
    /\ tasks[t].pc = "read"
    /\ tasks' = [tasks EXCEPT ![t].pc = "write", ![t].last = store]
    /\ UNCHANGED <<store, lock, returned, outcome>>
    /\ UNCHANGED <<logic_vars, screen_vars, select_vars, agent_vars>>

\* an allocator that hands the last-issued id out again
next_id_unchanged(last) == last

\* claim_next_id: the id that follows the last-issued one
next_id(last) == last + 1

\* claim_next_id: persist the incremented value
claim_write(t) ==
    /\ tasks[t].pc = "write"
    /\ store' = next_id(tasks[t].last)
    /\ tasks' = [tasks EXCEPT ![t].pc = "commit"]
    /\ UNCHANGED <<lock, returned, outcome>>
    /\ UNCHANGED <<logic_vars, screen_vars, select_vars, agent_vars>>

\* claim_next_id: commit, release the store and return the new id
claim_return(t) ==
    /\ tasks[t].pc = "commit"
    /\ returned' = Append(returned, next_id(tasks[t].last))
    /\ lock' = IF lock = t THEN 0 ELSE lock
    /\ tasks' = [tasks EXCEPT ![t].pc = "idle"]
    /\ UNCHANGED <<store, outcome>>
    /\ UNCHANGED <<logic_vars, screen_vars, select_vars, agent_vars>>

----------------------------------------------------------------------------
(* Specifications                                                          *)

\* the chat components as constructed
ChatInit ==
    /\ Logic_init
    /\ ChatScreen_init
    /\ outcome = [op |-> "none", ret |-> "None", path |-> "none"]

\* nothing selected or acquired yet
SelectIdle ==
    /\ logic_llm = [llm |-> "unset", tried |-> << >>, probed |-> {}]
    /\ acq = NoAcquisition

\* a fresh allocator store and tasks that have not called yet
AllocInit ==
    /\ store = InitialId
    /\ lock = 0
    /\ tasks = [t \in 1..MaxTasks |-> IdleTask]
    /\ returned = << >>

Init ==
    /\ ChatInit
    /\ env = [ollama_up |-> FALSE, llama_available |-> TRUE, hf_loadable |-> TRUE]
    /\ config = [providers |-> <<"ollama", "llama_cpp">>, preferred |-> "None"]
    /\ SelectIdle
    /\ AllocInit
    /\ AgentInit

\* Logic driving its stream workers (logic.py)
Next ==
    \/ async_init
    \/ new_conversation
    \/ \E t \in Texts : submit_request(t)
    \/ \E w \in DOMAIN workers : Logic_stream_response_start(w)
    \/ \E w \in DOMAIN workers : Logic_stream_response_chunk(w)
    \/ \E w \in DOMAIN workers, e \in CaughtErrors : Logic_stream_response_error(w, e)
    \/ \E w \in DOMAIN workers : Logic_stream_response_end(w)
    \/ \E w \in DOMAIN workers : Logic_worker_cancelled(w)

Spec == Init /\ [][Next]_vars

\* ChatScreen driving its Response widgets (modes/chat.py)
ScreenNext ==
    \/ \E t \in Texts : on_input_submitted(t)
    \/ on_button_pressed_stop
    \/ Response_stream_response_start
    \/ \E b \in BOOLEAN : Response_stream_response_chunk(b)
    \/ Response_stream_response_exhausted
    \/ Response_stream_response_raises
    \/ Response_stream_response_closed
    \/ ChatScreen_worker_cancelled

ScreenSpec == Init /\ [][ScreenNext]_vars

\* a step of the worker coroutine of ChatScreen.stream_response: the event
\* loop resumes it whenever what it awaits is ready, and the backend's
\* stream delivers its next chunk, ends or raises
ScreenWorkerStep ==
    \/ Response_stream_response_start
    \/ \E b \in BOOLEAN : Response_stream_response_chunk(b)
    \/ Response_stream_response_exhausted
    \/ Response_stream_response_raises
    \/ Response_stream_response_closed

\* ChatScreen with a worker that is scheduled fairly: a worker that can take
\* a step eventually takes one; the user's actions and the cancellation of
\* the worker task may or may not happen
ScreenFairSpec == Init /\ [][ScreenNext]_vars /\ WF_vars(ScreenWorkerStep)

\* the provider lists Logic may be constructed with
ProviderLists == UNION {[1..n -> ProviderTypes] : n \in 1..MaxProviders}

\* backend selection on any machine, with any provider list and preference
SelectInit ==
    /\ ChatInit
    /\ env \in [ollama_up : BOOLEAN, llama_available : BOOLEAN, hf_loadable : BOOLEAN]
    /\ config \in [providers : ProviderLists, preferred : ProviderTypes \cup {"None"}]
    /\ SelectIdle
    /\ AllocInit
    /\ AgentInit

SelectNext ==
    \/ probe_ollama_call
    \/ probe_llama_available_call
    \/ Logic_init_llm
    \/ runtime_enter
    \/ runtime_try_provider
    \/ \E raised \in BOOLEAN : runtime_exit(raised)

SelectSpec == SelectInit /\ [][SelectNext]_vars

\* tasks claiming thread ids concurrently
AllocNext ==
    \/ \E t \in DOMAIN tasks : claim_call(t)
    \/ \E t \in DOMAIN tasks : claim_begin(t)
    \/ \E t \in DOMAIN tasks : claim_read(t)
    \/ \E t \in DOMAIN tasks : claim_write(t)
    \/ \E t \in DOMAIN tasks : claim_return(t)

AllocSpec == Init /\ [][AllocNext]_vars

\* an agent and the astream calls made on it
AgentNext ==
    \/ \E a \in {"LlamaCppAgent", "OllamaAgent", "DummyAgent"} : Agent_init(a)
    \/ \E user_message \in Texts, thread_id \in ThreadIds :
          Agent_astream(user_message, thread_id)
    \/ \E message_chunk \in Chunks : LlamaCppAgent_astream_chunk(message_chunk)
    \/ \E message_chunk \in Chunks : OllamaAgent_astream_chunk(message_chunk)
    \/ LangChainAgent_astream_end
    \/ DummyAgent_astream_token
    \/ DummyAgent_astream_end

AgentSpec == Init /\ [][AgentNext]_vars

\* the loops that filter the chunks of a stream: Response.stream_response of
\* chat.py and the astream of the agents.  They share no state, so one of
\* them is followed at a time
FilterNext ==
    \/ (astream = NoStream /\ ScreenNext)
    \/ (responses = << >> /\ AgentNext)

FilterSpec == Init /\ [][FilterNext]_vars

----------------------------------------------------------------------------
(* Claims                                                                  *)

\* C1: single-flight rejection.  A submission handled in a state where the
\* handler's generating flag is true is not accepted: Logic.submit_request
\* returns False, ChatScreen.on_input_submitted returns at its first check,
\* and neither changes the thread id, the displayed requests and responses,
\* the message history or the set of stream workers.
C1_SingleFlightRejection ==
    [][ /\ ((\E t \in Texts : submit_request(t)) /\ generating)
            => (outcome'.ret = "False" /\ UNCHANGED <<logic_vars, screen_vars>>)
        /\ ((\E t \in Texts : on_input_submitted(t)) /\ screen_generating)
            => (outcome'.path = "busy" /\ UNCHANGED <<logic_vars, screen_vars>>)
      ]_vars

\* C1 witness: a submission was refused while a stream was running
C1_Witness ==
    /\ outcome.op = "on_input_submitted"
    /\ outcome.path = "busy"
    /\ screen_generating
    /\ ScreenWorkerActive

\* C2: generating is true in every state in which a stream worker of an
\* accepted request is scheduled or running.
C2_GeneratingWhileStreaming ==
    /\ (ActiveWorkers # {} => generating)
    /\ (ScreenWorkerActive => screen_generating)

\* C3: at most one stream_response worker is scheduled or running at any time.
C3_AtMostOneStreamWorker ==
    Cardinality(ActiveWorkers) <= 1

\* C4: once a stream_response worker has ended (exhaustion, error, stop or
\* cancellation of the task) generating is false.
C4_GeneratingClearedAfterStream ==
    /\ \A w \in DOMAIN workers :
          workers[w].pc \in {"done", "raised", "cancelled"} => ~generating
    /\ screen_worker.pc \in {"done", "cancelled"} => ~screen_generating

----------------------------------------------------------------------------
(* Claims about conversations and thread ids                               *)

\* a call of Logic.submit_request
SubmitStep == \E t \in Texts : submit_request(t)

\* a call of Logic.submit_request that accepts the request
SubmitAccepted == SubmitStep /\ outcome'.path = "accepted"

\* a step of one of the stream_response workers of Logic
WorkerStep ==
    \E w \in DOMAIN workers :
        \/ Logic_stream_response_start(w)
        \/ Logic_stream_response_chunk(w)
        \/ \E e \in CaughtErrors : Logic_stream_response_error(w, e)
        \/ Logic_stream_response_end(w)
        \/ Logic_worker_cancelled(w)

\* no request so far was streamed against the current thread id
CurrentThreadUnused ==
    \A w \in DOMAIN workers : workers[w].thread # current_thread

\* C12: within one conversation every accepted request streams against the
\* same thread id.  An accepted submit_request hands the current thread id
\* to its worker; submit_request and the stream workers leave the current
\* thread id alone, only new_conversation changes it; a request keeps the
\* thread id it was scheduled with.
C12_ThreadKeptWithinConversation ==
    [][ /\ (SubmitStep \/ WorkerStep) => current_thread' = current_thread
        /\ current_thread' # current_thread => new_conversation
        /\ SubmitAccepted => workers'[Len(workers')].thread = current_thread
        /\ \A w \in DOMAIN workers : workers'[w].thread = workers[w].thread
      ]_vars

\* C12 witness: two requests of the same conversation, the first one
\* finished and the second one streaming, on the same thread id
C12_Witness ==
    /\ Len(workers) >= 2
    /\ workers[1].pc = "done"
    /\ workers[2].pc = "streaming"
    /\ workers[2].pos >= 1
    /\ workers[1].thread = current_thread
    /\ workers[2].thread = current_thread

\* C13: after new_conversation the current thread id differs from the thread
\* id of every earlier request, it stays unused until the next request is
\* accepted, and that request streams against a thread id no earlier
\* request has used.
C13_NewConversationFreshThread ==
    [][ /\ new_conversation => CurrentThreadUnused'
        /\ (CurrentThreadUnused /\ ~SubmitAccepted) => CurrentThreadUnused'
        /\ (CurrentThreadUnused /\ SubmitAccepted) =>
              \A w \in DOMAIN workers :
                  workers[w].thread # workers'[Len(workers')].thread
      ]_vars

\* C13 witness: a request was accepted, a new conversation was started, and
\* the next request streams against another thread id
C13_Witness ==
    /\ Len(workers) >= 2
    /\ workers[1].pc = "done"
    /\ workers[1].written # << >>
    /\ workers[2].pc = "streaming"
    /\ workers[2].thread # workers[1].thread
    /\ workers[2].thread = current_thread

\* C14: new_conversation does not cancel a stream in flight.  The call
\* changes the current thread id and clears the displayed history and
\* nothing else: every stream worker stays where it is, with the thread id
\* it was scheduled with, and no later step changes that thread id.
C14_NewConversationKeepsStream ==
    [][ /\ new_conversation =>
              /\ workers' = workers
              /\ generating' = generating
              /\ agent' = agent
              /\ chats' = << >>
              /\ current_thread' # current_thread
        /\ \A w \in DOMAIN workers :
              workers[w].thread # current_thread =>
                  /\ workers'[w].thread = workers[w].thread
                  /\ workers'[w].pc # "cancelled" \/ Logic_worker_cancelled(w)
                        \/ workers[w].pc = "cancelled"
      ]_vars

\* C14 witness: a new conversation was started while a stream was in
\* flight, and the stream is still running against the old thread id
C14_Witness ==
    /\ outcome.op = "new_conversation"
    /\ chats = << >>
    /\ \E w \in DOMAIN workers :
          /\ workers[w].pc = "streaming"
          /\ workers[w].written # << >>
          /\ workers[w].thread # current_thread

\* C15: an accepted submission shows the request, mounts a fresh response
\* slot, hands the stream to a background worker and returns before the
\* worker has run: on return the worker is scheduled and has written
\* nothing, and the workers of earlier requests are untouched.
C15_SubmitDoesNotBlock ==
    [][ /\ SubmitAccepted =>
              LET n == Len(workers')
              IN /\ outcome'.ret = "True"
                 /\ n = Len(workers) + 1
                 /\ chats' = chats \o
                       << [kind |-> "request", text |-> workers'[n].text, slot |-> 0],
                          [kind |-> "response", text |-> "", slot |-> n] >>
                 /\ workers'[n].pc = "scheduled"
                 /\ workers'[n].pos = 0
                 /\ workers'[n].written = << >>
                 /\ \A w \in DOMAIN workers : workers'[w] = workers[w]
        /\ ((\E t \in Texts : on_input_submitted(t)) /\ outcome'.path = "accepted") =>
              /\ Len(responses') = Len(responses) + 1
              /\ responses'[Len(responses')].content.kind = "waiting"
              /\ screen_worker'.pc = "scheduled"
              /\ screen_worker'.pos = 0
      ]_vars

\* C15 witness: submit_request has returned True and the worker of that
\* request is in the middle of its stream
C15_Witness ==
    /\ outcome.op = "submit_request"
    /\ outcome.ret = "True"
    /\ workers # << >>
    /\ workers[Len(workers)].pc = "streaming"
    /\ workers[Len(workers)].pos >= 1
    /\ workers[Len(workers)].pos < MaxChunks

\* C16: the current thread id is null (no ThreadID, which is a positive
\* integer) as long as no request of the current conversation has been
\* accepted, and no token is written for a request whose thread id is null.
C16_ThreadNullUntilFirstRequest ==
    /\ CurrentThreadUnused => current_thread < 1
    /\ \A w \in DOMAIN workers :
          workers[w].written # << >> => workers[w].thread >= 1

----------------------------------------------------------------------------
(* Claims about the stream                                                 *)

\* a step in which the except clause of Response.stream_response runs to
\* its end: at once when no markdown stream is open, else after stream.stop()
ExceptClauseCompletes ==
    \/ Response_stream_response_raises /\ screen_worker.first
    \/ Response_stream_response_closed /\ screen_worker.pc = "closing_err"

\* C17: a stream error or stopped-stream signal raised by the agent's stream
\* is put into the response sink of that request and the worker returns
\* normally; what was written before stays, the other requests' sinks and
\* workers and the displayed chats are unchanged, generating is false
\* afterwards, and a submission made after an error was shown is accepted.
\* The same holds for the except clause of Response.stream_response.
C17_StreamErrorRoutedToSink ==
    [][ /\ \A w \in DOMAIN workers, e \in CaughtErrors :
              Logic_stream_response_error(w, e) =>
                  /\ workers'[w].shown = e
                  /\ workers'[w].pc = "done"
                  /\ workers'[w].written = workers[w].written
                  /\ \A v \in DOMAIN workers \ {w} : workers'[v] = workers[v]
                  /\ chats' = chats
                  /\ ~generating'
        /\ (SubmitStep /\ \E w \in DOMAIN workers : workers[w].shown \in CaughtErrors)
              => outcome'.ret = "True"
        /\ ExceptClauseCompletes =>
                  /\ responses'[Len(responses)].content.kind = "error"
                  /\ \A n \in 1..(Len(responses) - 1) : responses'[n] = responses[n]
                  /\ messages' = messages
                  /\ ~screen_generating'
      ]_vars

\* C17 witness: a request ran to its end, the next one was stopped in the
\* middle of its stream and shows the error, and nothing is generating
C17_Witness ==
    /\ Len(workers) >= 2
    /\ workers[1].pc = "done"
    /\ workers[1].shown = "none"
    /\ workers[1].pos = MaxChunks
    /\ workers[2].pc = "done"
    /\ workers[2].shown = "StoppedStreamError"
    /\ workers[2].written # << >>
    /\ ~generating

\* the token string carried by the k-th chunk of the agent's stream
token_of(chunk) == [token |-> chunk]

\* C18: when a stream has completed normally, the sequence written to the
\* response sink is the sequence of tokens the agent produced, in order,
\* without duplicates or omissions.
C18_TokensWrittenAsProduced ==
    \A w \in DOMAIN workers :
        (workers[w].pc = "done" /\ workers[w].shown = "none") =>
            workers[w].written = [k \in 1..workers[w].pos |-> token_of(k)]

----------------------------------------------------------------------------
(* Claims about backend selection                                          *)

\* the backend behind a provider tag is usable on this machine
BackendAvailable(type) ==
    CASE type = "ollama" -> env.ollama_up
      [] type = "llama_cpp" -> env.llama_available
      [] type = "hugging_face" -> env.hf_loadable
      [] OTHER -> TRUE

\* the order in which Logic.__init__ turns to its two backends
LogicTrialOrder == <<"ollama", "llama_cpp">>

\* the provider tags in the order Logic.runtime tries them
TrialTypes == [k \in DOMAIN acq.order |-> config.providers[acq.order[k]]]

\* position of the first usable backend of a sequence of tags, 0 if none
FirstAvailable(types) ==
    IF \E k \in DOMAIN types : BackendAvailable(types[k])
    THEN CHOOSE k \in DOMAIN types :
            /\ BackendAvailable(types[k])
            /\ \A j \in 1..(k - 1) : ~BackendAvailable(types[j])
    ELSE 0

\* the search of Logic.runtime has ended, with a Runtime or with exhaustion
AcqSearchEnded ==
    acq.phase \in {"yielded", "exited", "exited_raising", "exhausted"}

\* Logic.runtime has produced a Runtime
AcqYielded == acq.phase \in {"yielded", "exited", "exited_raising"}

\* the acquisition has ended: with a Runtime, with exhaustion, or with an
\* error raised by a provider's get_agent
AcqEnded == AcqSearchEnded \/ acq.phase = "provider_raised"

\* C5: providers are tried strictly in trial order.  Whenever some backend
\* of the trial order is usable, the backend selected is the first usable
\* one, every backend before it was tried, and none after it was touched;
\* this holds for Logic.__init__ (Ollama, then llama.cpp) and for the
\* provider list of Logic.runtime.  A provider whose get_agent raises was
\* reached in order too, and no provider after it was touched.
C5_TrialsInOrder ==
    /\ (logic_llm.llm # "unset" /\ FirstAvailable(LogicTrialOrder) # 0) =>
          LET k == FirstAvailable(LogicTrialOrder)
          IN /\ logic_llm.llm = LogicTrialOrder[k]
             /\ logic_llm.tried = SubSeq(LogicTrialOrder, 1, k)
    /\ acq.phase = "trying" =>
          /\ acq.invoked = SubSeq(acq.order, 1, acq.pos - 1)
          /\ \A j \in 1..(acq.pos - 1) : ~BackendAvailable(TrialTypes[j])
    /\ acq.phase = "provider_raised" =>
          /\ acq.invoked = SubSeq(acq.order, 1, acq.pos)
          /\ \A j \in 1..acq.pos : ~BackendAvailable(TrialTypes[j])
    /\ (AcqSearchEnded /\ FirstAvailable(TrialTypes) # 0) =>
          LET k == FirstAvailable(TrialTypes)
          IN /\ AcqYielded
             /\ acq.selected = acq.order[k]
             /\ acq.agent # "None"
             /\ acq.invoked = SubSeq(acq.order, 1, k)

\* C5 witness: an unavailable provider was skipped, the dummy provider after
\* it was selected and a provider after that was never asked; Logic.__init__
\* went past Ollama to llama.cpp
C5_Witness ==
    /\ acq.phase = "yielded"
    /\ config.providers[acq.selected] = "dummy"
    /\ Len(acq.invoked) = 2
    /\ Len(acq.order) = 3
    /\ logic_llm.llm = "llama_cpp"
    /\ env.llama_available

\* C6: when no backend is usable the selection ends in the provider
\* exhaustion error without a Runtime, and a backend that was never probed
\* is never selected.
C6_ExhaustionFailsLoudly ==
    /\ logic_llm.llm # "unset" =>
          /\ logic_llm.llm \in logic_llm.probed \cup {"exhausted"}
          /\ (FirstAvailable(LogicTrialOrder) = 0 => logic_llm.llm = "exhausted")
    /\ (AcqSearchEnded /\ FirstAvailable(TrialTypes) = 0) =>
          /\ acq.phase = "exhausted"
          /\ acq.agent = "None"
          /\ acq.selected = 0

\* C7: the trial order is the stable partition of the provider list by the
\* preferred tag: a permutation of the list in which no other provider
\* precedes a preferred one and each group keeps its original order; with no
\* preference it is the list itself.
C7_StablePartition ==
    acq.phase \notin {"idle", "config_error"} =>
        LET o == acq.order
            pref(k) == config.providers[o[k]] = config.preferred
        IN /\ Len(o) = Len(config.providers)
           /\ {o[k] : k \in DOMAIN o} = DOMAIN config.providers
           /\ \A a, b \in DOMAIN o :
                 a < b => /\ ~(~pref(a) /\ pref(b))
                          /\ (pref(a) = pref(b)) => o[a] < o[b]
           /\ config.preferred = "None" => o = [k \in DOMAIN config.providers |-> k]

\* C7 witness: two providers share the preferred tag and another provider
\* stood before them in the configured list
C7_Witness ==
    /\ acq.phase = "trying"
    /\ Len(acq.order) = 3
    /\ config.providers[1] # config.preferred
    /\ config.providers[2] = config.preferred
    /\ config.providers[3] = config.preferred
    /\ acq.order = <<2, 3, 1>>

\* C8: a preferred tag that no provider of the list carries ends the
\* acquisition in the configuration error, before any get_agent call and
\* without a Runtime.
C8_UnknownPreferredFails ==
    (/\ acq.phase # "idle"
     /\ config.preferred # "None"
     /\ \A i \in DOMAIN config.providers : config.providers[i] # config.preferred)
    => /\ acq.phase = "config_error"
       /\ acq.invoked = << >>
       /\ acq.agent = "None"
       /\ acq.selected = 0

\* C8 witness: the acquisition failed on an unknown preferred tag although
\* the list holds a provider that is always available
C8_Witness ==
    /\ acq.phase = "config_error"
    /\ config.preferred = "ollama"
    /\ \E i \in DOMAIN config.providers : config.providers[i] = "dummy"

\* the providers whose get_agent yields an agent on every machine
AlwaysAvailableTypes == {"dummy"}

\* the list holds an always-available provider and the preference is absent
\* or names a provider of the list
C9_Precondition ==
    /\ \E i \in DOMAIN config.providers : config.providers[i] \in AlwaysAvailableTypes
    /\ \/ config.preferred = "None"
       \/ \E i \in DOMAIN config.providers : config.providers[i] = config.preferred

\* C9: with an always-available provider in the list and a valid preference
\* the acquisition succeeds and the selected agent carries the tag of the
\* first list element or the preferred tag.
C9_FirstOrPreferredTag ==
    (C9_Precondition /\ AcqEnded) =>
        /\ AcqYielded
        /\ config.providers[acq.selected] \in {config.providers[1], config.preferred}

\* C19: whenever the backend of a provider that was asked is unavailable,
\* its get_agent yields null and raises nothing, and a provider yields an
\* agent only when its backend is available.
C19_UnavailableYieldsNull ==
    \A k \in DOMAIN acq.invoked :
        LET type == config.providers[acq.invoked[k]]
            got == get_agent(type, env)
        IN /\ ~BackendAvailable(type) => got = NoAgent
           /\ got.agent \notin {"None", "raises"} => BackendAvailable(type)

\* C20: every checkpoint connection opened for the selected agent stays
\* open while the Runtime is in use and has been closed, exactly once, when
\* the scope has been left, normally or by raising; none remains open.
C20_ConnectionClosedOnce ==
    /\ acq.closed <= acq.opened
    /\ acq.phase = "yielded" =>
          /\ acq.closed = 0
          /\ Cardinality(acq.open) = acq.opened
    /\ acq.phase \in {"exited", "exited_raising"} =>
          /\ acq.open = {}
          /\ acq.closed = acq.opened

\* the providers asked so far whose get_agent produced an agent
AgentsConstructed ==
    {k \in DOMAIN acq.invoked :
        get_agent(config.providers[acq.invoked[k]], env).agent \notin {"None", "raises"}}

\* C21: an acquisition that succeeds constructs exactly one Runtime around
\* exactly one agent, the one its selected provider yields; no other
\* provider has produced an agent, and from then on, through the use of the
\* Runtime and the exit from the scope, the agent, the provider and the
\* number of Runtime objects stay the same.  An acquisition that has not
\* succeeded has no Runtime and no agent.
C21_OneRuntimeOneAgent ==
    [][ /\ AcqYielded' =>
              /\ acq'.runtimes = 1
              /\ acq'.selected \in DOMAIN config.providers
              /\ acq'.agent = get_agent(config.providers[acq'.selected], env).agent
              /\ acq'.agent \notin {"None", "raises"}
              /\ Cardinality(AgentsConstructed') = 1
        /\ ~AcqYielded' => (acq'.runtimes = 0 /\ acq'.agent = "None")
        /\ AcqYielded =>
              /\ AcqYielded'
              /\ acq'.agent = acq.agent
              /\ acq'.selected = acq.selected
              /\ acq'.runtimes = acq.runtimes
      ]_vars

\* C21 witness: the scope was left with the first usable provider's agent
\* while a usable provider further down the list was never asked
C21_Witness ==
    /\ acq.phase \in {"exited", "exited_raising"}
    /\ acq.runtimes = 1
    /\ Len(acq.invoked) < Len(acq.order)
    /\ \E k \in DOMAIN acq.order :
          /\ k > Len(acq.invoked)
          /\ BackendAvailable(TrialTypes[k])

\* C25: the probes report an unavailable backend by their return value.
\* probe_ollama returns None exactly when Ollama cannot be connected to and
\* probe_llama_available returns False exactly when llama-cpp-python is not
\* installed; neither call raises, and neither changes anything but the
\* value it hands to its caller.  Logic.__init__, which probes Ollama at
\* line 65, changes no more than the backend it builds self.llm on.
C25_ProbesReturnInsteadOfRaising ==
    [][ /\ probe_ollama_call =>
              /\ outcome'.path = "returned"
              /\ outcome'.ret = "None" <=> ~env.ollama_up
              /\ UNCHANGED <<logic_vars, screen_vars, select_vars,
                             alloc_vars, agent_vars>>
        /\ probe_llama_available_call =>
              /\ outcome'.path = "returned"
              /\ outcome'.ret = "False" <=> ~env.llama_available
              /\ UNCHANGED <<logic_vars, screen_vars, select_vars,
                             alloc_vars, agent_vars>>
        /\ Logic_init_llm =>
              /\ logic_llm'.llm = "llama_cpp" <=> ~env.ollama_up
              /\ UNCHANGED <<env, config, acq, outcome>>
      ]_vars

\* C25 witness: with Ollama down, probe_ollama has returned None while a
\* Runtime is in use
C25_Witness ==
    /\ ~env.ollama_up
    /\ outcome = [op |-> "probe_ollama", ret |-> "None", path |-> "returned"]
    /\ acq.phase = "yielded"
    /\ logic_llm.llm = "llama_cpp"

\* C26: Logic.generating is false when submit_request returns, whether the
\* request was accepted or refused, and it is false before and after every
\* step of a stream worker: it is never true while a worker runs.
C26_GeneratingFalseOnReturn ==
    [][ /\ SubmitStep => ~generating'
        /\ WorkerStep => (~generating /\ ~generating')
      ]_vars

\* C26 witness: a request was accepted, its worker has written a chunk and
\* is still streaming, and generating is false
C26_Witness ==
    /\ ~generating
    /\ outcome = [op |-> "submit_request", ret |-> "True", path |-> "accepted"]
    /\ \E w \in ActiveWorkers :
          /\ workers[w].pc = "streaming"
          /\ workers[w].pos > 0

----------------------------------------------------------------------------
(* Claims about a turn of ChatScreen (src/rag_demo/modes/chat.py)          *)

\* the newest Response widget
LastResponse == responses[Len(responses)]

\* a chunk step that reaches the stop check of line 219 with the flag set
StopBreak ==
    /\ responses # << >>
    /\ LastResponse.stop_requested
    /\ Response_stream_response_chunk(TRUE)

\* the submission of a text that is not empty
SubmitText == \E value \in Texts \ {""} : on_input_submitted(value)

\* C22: a stop request ends the turn as a normal completion does.  The
\* chunk step that sees the flag leaves the loop by the else clause, not the
\* except clause; when stream.stop() returns, the text streamed so far is
\* what the widget shows (no error), it is recorded as the reply, and
\* generating is cleared; the next submission is then accepted and starts a
\* new stream from its first chunk with a Response whose stop flag is
\* clear, so that a turn that runs to the exhaustion of its stream shows
\* and records every string chunk the stream produced.
C22_StopEndsTurnNormally ==
    [][ /\ StopBreak =>
              /\ screen_worker'.pc = "closing_ok"
              /\ LastResponse'.left_by = "break"
              /\ LastResponse'.content.kind = "text"
        /\ (Response_stream_response_closed /\ LastResponse.left_by = "break") =>
              /\ screen_worker'.pc = "done"
              /\ ~screen_generating'
              /\ LastResponse'.content =
                    [kind |-> "text", tokens |-> screen_worker.response]
              /\ messages' = Append(messages,
                    [role |-> "ai", text |-> "", tokens |-> screen_worker.response])
        /\ (/\ responses # << >>
            /\ LastResponse.left_by = "break"
            /\ screen_worker.pc = "done"
            /\ SubmitText) =>
              /\ outcome'.path = "accepted"
              /\ screen_worker' = [NoWorker EXCEPT !.pc = "scheduled"]
              /\ LastResponse' = NewResponse
        /\ (/\ responses # << >>
            /\ screen_worker'.pc = "done"
            /\ LastResponse'.left_by = "exhausted") =>
              /\ Len(screen_worker'.response) + screen_worker'.logged
                    = screen_worker'.pos
              /\ messages'[Len(messages')] =
                    [role |-> "ai", text |-> "", tokens |-> screen_worker'.response]
      ]_vars

\* C22 witness: the first turn was ended by a stop request, and the second
\* turn was accepted, streamed every chunk and is over
C22_Witness ==
    /\ Len(responses) = 2
    /\ responses[1].left_by = "break"
    /\ responses[1].content.kind = "text"
    /\ responses[2].left_by = "exhausted"
    /\ screen_worker.pc = "done"
    /\ Len(screen_worker.response) = MaxScreenChunks
    /\ responses[2].content.tokens = screen_worker.response
    /\ ~screen_generating

\* C23: with a finite stream and a fairly scheduled worker, every accepted
\* request is followed by a state in which generating is false, the state
\* in which the next submission is accepted.
C23_EveryRequestReturnsToIdle ==
    screen_generating ~> ~screen_generating

\* TRUE for a chunk whose content is a string
IsStrChunk(chunk) == chunk.kind = "str"

\* the contents of the string chunks among the first n chunks of a stream
StrContents(stream, n) ==
    LET kept == SelectSeq(SubSeq(stream, 1, n), IsStrChunk)
    IN [i \in DOMAIN kept |-> kept[i].content]

\* the number of chunks among the first n that are not string chunks
NonStrCount(stream, n) == n - Len(StrContents(stream, n))

\* TRUE for a sequence of numbers in strictly increasing order
IsIncreasing(seq) == \A i, j \in DOMAIN seq : i < j => seq[i] < seq[j]

\* C24: a chunk whose content is not a string is dropped.  In
\* Response.stream_response the step that receives it leaves the response
\* text, the widget and the history as they are, logs one diagnostic and
\* stays in the loop; at every moment the text is made of the string chunks
\* received so far, in the order of the stream, and the log has one entry
\* for each of the others.  In LlamaCppAgent.astream and OllamaAgent.astream
\* the tokens yielded are the contents of the string chunks delivered so
\* far, in order, the log has one entry for each other chunk, and the
\* generator goes on to the end of the stream.
C24_NonStringChunkDropped ==
    [][ /\ Response_stream_response_chunk(FALSE) =>
              /\ screen_worker'.response = screen_worker.response
              /\ responses' = responses
              /\ messages' = messages
              /\ screen_worker'.logged = screen_worker.logged + 1
              /\ screen_worker'.pc = "streaming"
        /\ Len(screen_worker'.response) + screen_worker'.logged = screen_worker'.pos
        /\ IsIncreasing(screen_worker'.response)
        /\ astream'.agent \in {"LlamaCppAgent", "OllamaAgent"} =>
              /\ astream'.yielded = StrContents(astream'.stream, astream'.pos)
              /\ astream'.logged = NonStrCount(astream'.stream, astream'.pos)
              /\ astream'.pc = "done" => astream'.pos = Len(astream'.stream)
        /\ (\E message_chunk \in Chunks :
                \/ LlamaCppAgent_astream_chunk(message_chunk)
                \/ OllamaAgent_astream_chunk(message_chunk)) =>
              /\ astream'.pc = "streaming"
              /\ astream'.pos = astream.pos + 1
      ]_vars

\* C24 witness: the stream delivered a chunk that is not a string and then
\* a string chunk; the turn is over and the reply is the second chunk alone
C24_Witness ==
    /\ screen_worker.pc = "done"
    /\ screen_worker.logged = 1
    /\ screen_worker.response = <<2>>
    /\ responses # << >>
    /\ LastResponse.content = [kind |-> "text", tokens |-> <<2>>]
    /\ messages[Len(messages)] = [role |-> "ai", text |-> "", tokens |-> <<2>>]

\* C30: DummyAgent.astream yields the configured response, token by token
\* and whole once the generator has returned, whatever user_message and
\* thread_id it is called with; two calls yield the same sequence.
C30_DummyStreamFixed ==
    astream.agent = "DummyAgent" =>
        /\ astream.yielded = SubSeq(DummyResponse, 1, astream.pos)
        /\ astream.pc = "done" => astream.yielded = DummyResponse
        /\ astream.prev.valid => astream.prev.yielded = DummyResponse
        /\ (astream.prev.valid /\ astream.pc = "done") =>
              astream.yielded = astream.prev.yielded

\* C30 witness: two calls with different messages and different thread
\* ids have run to their end
C30_Witness ==
    /\ astream.agent = "DummyAgent"
    /\ astream.pc = "done"
    /\ astream.prev.valid
    /\ astream.prev.user_message # astream.user_message
    /\ astream.prev.thread_id # astream.thread_id
    /\ astream.yielded = astream.prev.yielded

\* the entries of the history with this role
EntriesOf(role) == {i \in DOMAIN messages : messages[i].role = role}

\* the reply the worker has assembled, as an entry of the history
AiEntry == [role |-> "ai", text |-> "", tokens |-> screen_worker.response]

\* the worker's turn comes to its end in this step
TurnEnds == screen_worker.pc # "done" /\ screen_worker'.pc = "done"

\* C27: the history of ChatScreen gains one human entry with each accepted
\* submission, in the step that accepts it and before the worker has
\* started, and none with a refused or empty one; it gains an ai entry,
\* holding the text streamed so far, exactly in the step that ends a turn
\* whose loop was left by exhaustion or by a stop request; a turn ended by
\* an exception of the stream, or a cancelled worker, adds nothing.  No
\* other step changes the history, so there is one human entry per
\* Response widget and at most as many ai entries.
C27_HistoryEntries ==
    [][ /\ \A value \in Texts :
              on_input_submitted(value) =>
                  IF outcome'.path = "accepted"
                  THEN /\ messages' = Append(messages,
                              [role |-> "human", text |-> value, tokens |-> << >>])
                       /\ screen_worker'.pc = "scheduled"
                       /\ screen_worker'.pos = 0
                  ELSE messages' = messages
        /\ (TurnEnds /\ LastResponse'.left_by \in {"exhausted", "break"}) =>
              messages' = Append(messages, AiEntry)
        /\ (TurnEnds /\ LastResponse'.left_by = "raised") => messages' = messages
        /\ ChatScreen_worker_cancelled => messages' = messages
        /\ (messages' # messages /\ ~SubmitText) =>
              (TurnEnds /\ LastResponse'.left_by \in {"exhausted", "break"})
        /\ Cardinality(EntriesOf("human")') = Len(responses')
        /\ Cardinality(EntriesOf("ai")') <= Len(responses')
      ]_vars

\* C27 witness: the first stream raised, the second
\* request was accepted, and the history holds the two human entries next to
\* each other
C27_Witness ==
    /\ Len(responses) = 2
    /\ responses[1].left_by = "raised"
    /\ Len(messages) >= 3
    /\ messages[2].role = "human"
    /\ messages[3].role = "human"
    /\ EntriesOf("ai") = {}

\* the worker is in the loop of Response.stream_response and the stop flag
\* of its widget is set
StopPending ==
    /\ screen_worker.pc = "streaming"
    /\ LastResponse.stop_requested

\* the step leaves the loop of Response.stream_response: by the break, by
\* the end of the stream or by an exception of the stream
LoopExits ==
    /\ screen_worker.pc = "streaming"
    /\ screen_worker'.pc \in {"closing_ok", "closing_err", "done"}

\* C28 as stated: with the stop flag set in the loop, a string chunk that
\* is appended ends the loop, a chunk that is not a string does not, and
\* whenever the loop is left the flag is false again.
C28_StopResetOnExit ==
    [][ /\ (StopPending /\ screen_worker'.response # screen_worker.response) =>
              LoopExits
        /\ (StopPending /\ Response_stream_response_chunk(FALSE)) => ~LoopExits
        /\ (StopPending /\ LoopExits) => ~LastResponse'.stop_requested
      ]_vars

\* C28, amended: with the stop flag set in the loop, the next string chunk
\* is appended and ends the loop through the stop check, which resets the
\* flag; a chunk that is not a string is dropped, the flag stays set and the
\* loop goes on; when the loop is left because the stream ends or raises,
\* the flag stays set.
C28_StopHonouredAtNextString ==
    [][ /\ (StopPending /\ screen_worker'.response # screen_worker.response) =>
              /\ LoopExits
              /\ Len(screen_worker'.response) = Len(screen_worker.response) + 1
              /\ LastResponse'.left_by = "break"
              /\ ~LastResponse'.stop_requested
        /\ (StopPending /\ Response_stream_response_chunk(FALSE)) =>
              /\ ~LoopExits
              /\ LastResponse'.stop_requested
              /\ screen_worker'.response = screen_worker.response
        /\ (StopPending /\ LoopExits /\ LastResponse'.left_by # "break") =>
              LastResponse'.stop_requested
        /\ (LoopExits /\ LastResponse'.left_by = "break") =>
              (StopPending /\ Response_stream_response_chunk(TRUE))
      ]_vars

\* C28 witness: the stop button was pressed before any chunk had arrived,
\* the first chunk was not a string and was dropped, and the second, a
\* string, was appended and ended the loop with the flag reset
C28_Witness ==
    /\ responses # << >>
    /\ LastResponse.stop_at = 0
    /\ LastResponse.left_by = "break"
    /\ ~LastResponse.stop_requested
    /\ screen_worker.logged = 1
    /\ screen_worker.response = <<2>>

\* C29: a submission with empty text changes nothing, in whatever state it
\* arrives: generating, the history, the Response widgets and the worker
\* are as before, no worker is scheduled, and the handler returns by one of
\* its two early returns.
C29_EmptySubmissionChangesNothing ==
    [][ on_input_submitted("") =>
            /\ outcome'.path \in {"busy", "empty"}
            /\ outcome'.path = "empty" <=> ~screen_generating
            /\ screen_generating' = screen_generating
            /\ messages' = messages
            /\ responses' = responses
            /\ screen_worker' = screen_worker
      ]_vars

\* C29 witness: after a turn that ended with a reply, an empty submission
\* has returned at the check of the text
C29_Witness ==
    /\ outcome = [op |-> "on_input_submitted", ret |-> "None", path |-> "empty"]
    /\ Len(responses) = 1
    /\ screen_worker.pc = "done"
    /\ Len(messages) = 3
    /\ ~screen_generating

----------------------------------------------------------------------------
(* Claims about the thread-id allocator                                    *)

\* C10: concurrent claim_next_id calls never return the same id, and once
\* no call is in its transaction the persisted value is the initial value
\* plus the number of calls that have returned.
C10_ConcurrentClaimsDistinct ==
    /\ \A i, j \in DOMAIN returned : i # j => returned[i] # returned[j]
    /\ (\A t \in DOMAIN tasks : tasks[t].pc \in {"idle", "waiting"}) =>
          store = InitialId + Len(returned)

\* C10 witness: a call waits while another task is inside its transaction,
\* after earlier calls of different tasks have returned
C10_Witness ==
    /\ Len(returned) >= 2
    /\ \E t1, t2 \in DOMAIN tasks :
          /\ t1 # t2
          /\ tasks[t1].pc = "write"
          /\ tasks[t2].pc = "waiting"

\* C11: claim_next_id calls made one after the other return distinct,
\* strictly increasing positive integers, the first call on a fresh store
\* returning 1; an id that was returned is never returned again.
C11_SequentialClaimsIncrease ==
    /\ \A i \in DOMAIN returned : returned[i] >= 1
    /\ returned # << >> => returned[1] = InitialId + 1
    /\ \A i, j \in DOMAIN returned : i < j => returned[i] < returned[j]

\* C11 witness: one task has made all its calls one after the other, no
\* other task has called, and every call has returned
C11_Witness ==
    /\ Len(returned) = MaxClaims
    /\ \E t \in DOMAIN tasks :
          /\ tasks[t].calls = MaxClaims
          /\ tasks[t].pc = "idle"
          /\ \A u \in DOMAIN tasks \ {t} : tasks[u].calls = 0

====
